---- MODULE Spec2Model ----
(***************************************************************************)
(* A model of the CHIP-8 interpreter core of src/chip8.rs: the decoder     *)
(* decode_opcode, the machine state Chip8, and Chip8::step, which fetches  *)
(* the word at program_counter, advances the counter, decodes, executes    *)
(* and decrements the two timers.                                          *)
(***************************************************************************)
EXTENDS Integers, Naturals, Sequences, FiniteSets, TLC

(***************************************************************************)
(* Program constants.                                                      *)
(***************************************************************************)
MEM_SIZE == 4096
GFX_SIZE_X == 64
GFX_SIZE_Y == 32
NumRegisters == 16
StackSize == 16
NumKeys == 16

U8 == 256
U16 == 65536

(***************************************************************************)
(* Bounds of the model.                                                    *)
(***************************************************************************)
\* Register selectors sampled in loaded programs: 0..MaxReg and VF.
MaxReg == 0
\* Byte values sampled at both ends of the 8-bit range: 0..MaxLow and
\* 255-MaxLow..255.
MaxLow == 0
\* Number of steps the host invokes in one run.
MaxSteps == 2

(***************************************************************************)
(* Bit operations on unsigned integers, as the machine computes them.      *)
(***************************************************************************)
RECURSIVE band(_, _)
band(a, b) ==
    IF a = 0 \/ b = 0 THEN 0
    ELSE ((a % 2) * (b % 2)) + 2 * band(a \div 2, b \div 2)

RECURSIVE bor(_, _)
bor(a, b) ==
    IF a = 0 THEN b
    ELSE IF b = 0 THEN a
    ELSE (IF (a % 2) + (b % 2) > 0 THEN 1 ELSE 0) + 2 * bor(a \div 2, b \div 2)

\* An exclusive or written as an inclusive or.
bxor_Or(a, b) == bor(a, b)

RECURSIVE bxor(_, _)
bxor(a, b) ==
    IF a = 0 THEN b
    ELSE IF b = 0 THEN a
    ELSE (((a % 2) + (b % 2)) % 2) + 2 * bxor(a \div 2, b \div 2)

RECURSIVE shr(_, _)
shr(a, n) == IF n = 0 THEN a ELSE shr(a \div 2, n - 1)

RECURSIVE shl16(_, _)
shl16(a, n) == IF n = 0 THEN a % U16 ELSE shl16((2 * a) % U16, n - 1)

\* An addition that saturates at 255 instead of wrapping.
wrapping_add_Saturating(a, b) == IF a + b > U8 - 1 THEN U8 - 1 ELSE a + b

\* u8 arithmetic: wrapping_add, wrapping_sub, checked_add, checked_sub
\* (the checked forms answer whether a result exists).
wrapping_add(a, b) == (a + b) % U8
wrapping_sub(a, b) == (a - b + U8) % U8
checked_add_some(a, b) == a + b < U8
checked_sub_some(a, b) == a - b >= 0

(***************************************************************************)
(* The decoder.                                                            *)
(***************************************************************************)
None == [op |-> "None"]

\* A decoder that tests every family on its high nibble alone.
Masked_HighNibbleOnly(opcode, mask) == band(opcode, \hF000)

\* opcode & mask
Masked(opcode, mask) == band(opcode, mask)

\* A decoder that reads the first register selector from bits 4-7.
NibbleX_FromBits4To7(opcode) == shr(band(opcode, \h00F0), 4)

\* ((opcode & 0x0F00) >> 8) as usize
NibbleX(opcode) == shr(band(opcode, \h0F00), 8)
\* A decoder that shifts the second register selector down without masking
\* off the nibbles above it.
NibbleY_Unmasked(opcode) == shr(opcode, 4)

\* ((opcode & 0x00F0) >> 4) as usize
NibbleY(opcode) == shr(band(opcode, \h00F0), 4)
\* (opcode & 0x000F) as u8
NibbleN(opcode) == band(opcode, \h000F) % U8
\* (opcode & 0x00FF) as u8
ByteNN(opcode) == band(opcode, \h00FF) % U8
\* opcode & 0x0FFF
AddrNNN(opcode) == band(opcode, \h0FFF)

decode_opcode(opcode) ==
    LET hi  == Masked(opcode, \hF000)   \* opcode & 0xF000
        alu == Masked(opcode, \hF00F)   \* opcode & 0xF00F
        ef  == Masked(opcode, \hF0FF)   \* opcode & 0xF0FF
        X   == NibbleX(opcode)
        Y   == NibbleY(opcode)
    IN
    IF opcode = \h00E0 THEN [op |-> "ClearDisplay"]
    ELSE IF opcode = \h00EE THEN [op |-> "Return"]
    ELSE IF hi = \h1000 THEN [op |-> "Jump", address |-> AddrNNN(opcode)]
    ELSE IF hi = \h2000 THEN [op |-> "Call", address |-> AddrNNN(opcode)]
    ELSE IF hi = \h3000 THEN
        [op |-> "SkipIfEqual", register |-> X, value |-> ByteNN(opcode)]
    ELSE IF hi = \h4000 THEN
        [op |-> "SkipIfNotEqual", register |-> X, value |-> ByteNN(opcode)]
    ELSE IF hi = \h5000 THEN
        [op |-> "SkipIfRegistersEqual", register1 |-> X, register2 |-> Y]
    ELSE IF hi = \h6000 THEN
        [op |-> "SetRegister", register |-> X, value |-> ByteNN(opcode)]
    ELSE IF hi = \h7000 THEN
        [op |-> "AddConstant", register |-> X, value |-> ByteNN(opcode)]
    ELSE IF alu = \h8000 THEN [op |-> "CopyRegister", target |-> X, source |-> Y]
    ELSE IF alu = \h8001 THEN [op |-> "BitOr", target |-> X, other |-> Y]
    ELSE IF alu = \h8002 THEN [op |-> "BitAnd", target |-> X, other |-> Y]
    ELSE IF alu = \h8003 THEN [op |-> "BitXor", target |-> X, other |-> Y]
    ELSE IF alu = \h8004 THEN [op |-> "AddRegister", target |-> X, other |-> Y]
    ELSE IF alu = \h8005 THEN
        [op |-> "SubtractRegister", target |-> X, other |-> Y]
    ELSE IF alu = \h8006 THEN [op |-> "RightShift", target |-> X, source |-> Y]
    ELSE IF alu = \h8007 THEN
        [op |-> "AltSubtractRegister", target |-> X, other |-> Y]
    ELSE IF alu = \h8008 THEN [op |-> "LeftShift", target |-> X, source |-> Y]
    ELSE IF hi = \h9000 THEN
        [op |-> "SkipIfRegistersNotEqual", register1 |-> X, register2 |-> Y]
    ELSE IF hi = \hA000 THEN
        [op |-> "SetIndexRegister", value |-> AddrNNN(opcode)]
    ELSE IF hi = \hB000 THEN [op |-> "OffsetJump", address |-> AddrNNN(opcode)]
    ELSE IF hi = \hC000 THEN
        [op |-> "Rand", mask |-> ByteNN(opcode), register |-> X]
    ELSE IF hi = \hD000 THEN
        [op |-> "Display", x |-> X, y |-> Y, height |-> NibbleN(opcode)]
    ELSE IF ef = \hE09E THEN [op |-> "SkipIfKeyPressed", key |-> X]
    ELSE IF ef = \hE0A1 THEN [op |-> "SkipIfKeyNotPressed", key |-> X]
    ELSE IF ef = \hF007 THEN [op |-> "GetDelayTimer", register |-> X]
    ELSE IF ef = \hF00A THEN [op |-> "AwaitKeypress", register |-> X]
    ELSE IF ef = \hF015 THEN [op |-> "SetDelayTimer", value |-> X]
    ELSE IF ef = \hF018 THEN [op |-> "SetSoundTimer", value |-> X]
    ELSE IF ef = \hF01E THEN [op |-> "IncrementIndexRegister", register |-> X]
    ELSE IF ef = \hF029 THEN [op |-> "SetIndexToFont", register |-> X]
    ELSE IF ef = \hF033 THEN [op |-> "StoreDecimal", register |-> X]
    ELSE IF ef = \hF055 THEN [op |-> "MemDump", max_register |-> X]
    ELSE IF ef = \hF065 THEN [op |-> "MemLoad", max_register |-> X]
    ELSE None

(***************************************************************************)
(* The machine state, and what the checks remember of the last step.       *)
(***************************************************************************)
VARIABLES
    memory, registers, index_register, program_counter, gfx_memory,
    delay_timer, sound_timer, stack, stack_pointer, keys,
    outcome,    \* "new", "completed", or the panic that ended the run
    opcode,     \* the word the last step fetched (the decoder's input)
    decoded,    \* what decode_opcode made of it
    pre,        \* the machine's fields when the last step was entered
    steps,      \* the number of steps invoked so far
    fetches     \* the fetches made so far, in order: address and word

machine == <<memory, registers, index_register, program_counter, gfx_memory,
             delay_timer, sound_timer, stack, stack_pointer, keys>>
vars == <<memory, registers, index_register, program_counter, gfx_memory,
          delay_timer, sound_timer, stack, stack_pointer, keys,
          outcome, opcode, decoded, pre, steps, fetches>>

Pending == [op |-> "Pending"]

Snapshot ==
    [program_counter |-> program_counter, registers |-> registers,
     index_register |-> index_register, delay_timer |-> delay_timer,
     sound_timer |-> sound_timer, stack |-> stack,
     stack_pointer |-> stack_pointer, memory |-> memory,
     gfx_memory |-> gfx_memory, keys |-> keys]

\* The three large arrays are held by their non-default entries: memory
\* as the function from the addresses holding a nonzero byte to that byte
\* (every other address below MEM_SIZE holds 0), gfx_memory as the set of
\* white pixels and keys as the set of keys that are down.
ReadMemory(mem, a) == IF a \in DOMAIN mem THEN mem[a] ELSE 0

WriteMemory(mem, a, v) ==
    [x \in (IF v = 0 THEN DOMAIN mem \ {a} ELSE DOMAIN mem \cup {a}) |->
        IF x = a THEN v ELSE mem[x]]

\* Chip8::new()
new ==
    [memory |-> [a \in {} |-> 0],
     registers |-> [r \in 0..(NumRegisters - 1) |-> 0],
     index_register |-> 0,
     program_counter |-> 0,
     gfx_memory |-> {},
     delay_timer |-> 0,
     sound_timer |-> 0,
     stack |-> [s \in 0..(StackSize - 1) |-> 0],
     stack_pointer |-> 0,
     keys |-> {}]

\* The bytes and addresses the loaded programs and register files are drawn
\* from: both ends of the 8-bit range and the operands of the repository's
\* own tests.
RegSample == (0..MaxReg) \cup {NumRegisters - 1}
ByteSample == (0..MaxLow) \cup ((U8 - 1 - MaxLow)..(U8 - 1)) \cup {\h13, \hC4}
AddrSample == {0, \h9DE, MEM_SIZE - 1}
Origins == {0, MEM_SIZE - 4}

Word(hi, x, y, n) == (hi * 4096) + (x * 256) + (y * 16) + n

WordSample ==
    {\h00E0, \h00EE, \h0000, \h0123}
    \cup {Word(hi, 0, 0, 0) + a : hi \in {1, 2, 10, 11}, a \in AddrSample}
    \cup {Word(hi, x, 0, 0) + b :
             hi \in {3, 4, 6, 7, 12}, x \in RegSample, b \in ByteSample}
    \cup {Word(hi, x, y, n) :
             hi \in {5, 9}, x \in RegSample, y \in RegSample, n \in {0, 1}}
    \cup {Word(8, x, y, k) : x \in RegSample, y \in RegSample, k \in 0..15}
    \cup {Word(13, x, y, 5) : x \in RegSample, y \in RegSample}
    \cup {Word(14, x, 0, 0) + b : x \in RegSample, b \in {\h9E, \hA1, \h00}}
    \cup {Word(15, x, 0, 0) + b :
             x \in RegSample,
             b \in {\h07, \h0A, \h15, \h18, \h1E, \h29, \h33, \h55, \h65, \h00}}

\* The instructions that fall through to the next word, and the words a
\* loaded program continues with after one of them.
FallsThrough(w) ==
    \/ (w \div 4096) \in {6, 7, 10}
    \/ (w \div 4096) = 8 /\ (w % 16) \in 0..5

SecondWords(w) == IF FallsThrough(w) THEN {\h0000, \h7001} ELSE {\h0000}

\* What the host sets besides the operands: the value of the registers the
\* instruction does not name, and the two timers.
HostSetups ==
    {[fill |-> 0, delay_timer |-> 0, sound_timer |-> 0],
     [fill |-> \h5A, delay_timer |-> 30, sound_timer |-> 19],
     [fill |-> \h5A, delay_timer |-> 1, sound_timer |-> 0],
     [fill |-> 0, delay_timer |-> 0, sound_timer |-> 1]}

\* The state the host hands to the first step: a machine from Chip8::new()
\* into which a loader has written an instruction word at the origin and
\* the word that follows it, with the first word's two operand registers,
\* the remaining registers and the timers set.
LoadWord(mem, origin, w) ==
    WriteMemory(WriteMemory(mem, origin, w \div U8), origin + 1, w % U8)

RegisterFile(x, y, a, b, fill) ==
    [r \in 0..(NumRegisters - 1) |->
        IF r = x THEN a ELSE IF r = y THEN b ELSE fill]

Init ==
    \E origin \in Origins, w \in WordSample,
       a \in ByteSample, b \in ByteSample, host \in HostSetups :
      \E w2 \in SecondWords(w) :
        /\ memory = LoadWord(LoadWord(new.memory, origin, w), origin + 2, w2)
        /\ registers = RegisterFile((w \div 256) % 16, (w \div 16) % 16,
                                    a, b, host.fill)
        /\ index_register = new.index_register
        /\ program_counter = origin
        /\ gfx_memory = new.gfx_memory
        /\ delay_timer = host.delay_timer
        /\ sound_timer = host.sound_timer
        /\ stack = new.stack
        /\ stack_pointer = new.stack_pointer
        /\ keys = new.keys
        /\ outcome = "new"
        /\ opcode = 0
        /\ decoded = Pending
        /\ pre = Snapshot
        /\ steps = 0
        /\ fetches = <<>>

(***************************************************************************)
(* Chip8::process_next_opcode and Chip8::step.                             *)
(***************************************************************************)
Running == outcome \in {"new", "completed"}

\* A bounds check that looks at the first byte of the word only.
FetchInBounds_FirstByteOnly == program_counter < MEM_SIZE

\* Indexing memory at program_counter and program_counter + 1 succeeds.
FetchInBounds == program_counter < MEM_SIZE /\ program_counter + 1 < MEM_SIZE

\* opcode_upper << 8 | opcode_lower
FetchedOpcode ==
    bor(shl16(ReadMemory(memory, program_counter), 8),
        ReadMemory(memory, program_counter + 1))

\* An advance by one byte instead of one word.
Advanced_ByOne == program_counter + 1

\* self.program_counter += 2, made before the dispatch.
Advanced == program_counter + 2

\* A decrement that wraps a zero timer to 255.
Decrement_Wrapping(timer) == (timer + U8 - 1) % U8

\* The decrement of one timer at the end of step.
Decrement(timer) == IF timer > 0 THEN timer - 1 ELSE timer

\* A skip that is taken whatever the condition.
SkipIf_Unconditional(cond, pc) == pc + 2

\* What the skip instructions make of the advanced program counter.
SkipIf(cond, pc) == IF cond THEN pc + 2 ELSE pc

\* An addition that never reports the carry.
AddRegisterExec_NoCarry(regs, target, other) ==
    [[regs EXCEPT ![target] = wrapping_add(regs[target], regs[other])]
       EXCEPT ![15] = 0]

\* Opcode::AddRegister
AddRegisterExec(regs, target, other) ==
    LET target_value == regs[target]
        other_value == regs[other]
    IN
    IF checked_add_some(target_value, other_value)
    THEN [[regs EXCEPT ![target] = target_value + other_value]
            EXCEPT ![15] = 0]
    ELSE [[regs EXCEPT ![target] = wrapping_add(target_value, other_value)]
            EXCEPT ![15] = 1]

\* A subtraction that saturates at zero on borrow instead of wrapping.
SubtractRegisterExec_Saturating(regs, target, other) ==
    IF checked_sub_some(regs[target], regs[other])
    THEN [[regs EXCEPT ![target] = regs[target] - regs[other]]
            EXCEPT ![15] = 0]
    ELSE [[regs EXCEPT ![target] = 0] EXCEPT ![15] = 1]

\* A subtraction that writes the flag before the result, so that a result
\* written to VF survives.
SubtractRegisterExec_FlagFirst(regs, target, other) ==
    LET target_value == regs[target]
        other_value == regs[other]
    IN
    IF checked_sub_some(target_value, other_value)
    THEN [[regs EXCEPT ![15] = 0]
            EXCEPT ![target] = target_value - other_value]
    ELSE [[regs EXCEPT ![15] = 1]
            EXCEPT ![target] = wrapping_sub(target_value, other_value)]

\* Opcode::SubtractRegister
SubtractRegisterExec(regs, target, other) ==
    LET target_value == regs[target]
        other_value == regs[other]
    IN
    IF checked_sub_some(target_value, other_value)
    THEN [[regs EXCEPT ![target] = target_value - other_value]
            EXCEPT ![15] = 0]
    ELSE [[regs EXCEPT ![target] = wrapping_sub(target_value, other_value)]
            EXCEPT ![15] = 1]

\* A jump that adds its target to the advanced program counter.
JumpTarget_Relative(pc, address) == pc + address

\* Opcode::Jump: self.program_counter = address, whatever it held.
JumpTarget(pc, address) == address

\* A step that also pushes the address it fetched from onto the call
\* stack, as a subroutine call would.
Complete_PushesStack(op, d, pc2, regs2, idx2) ==
    /\ opcode' = op
    /\ decoded' = d
    /\ pre' = Snapshot
    /\ program_counter' = pc2
    /\ registers' = regs2
    /\ index_register' = idx2
    /\ delay_timer' = Decrement(delay_timer)
    /\ sound_timer' = Decrement(sound_timer)
    /\ outcome' = "completed"
    /\ steps' = steps + 1
    /\ fetches' = Append(fetches, [at |-> program_counter, word |-> op])
    /\ stack' = [stack EXCEPT ![stack_pointer % StackSize] = program_counter % U8]
    /\ stack_pointer' = stack_pointer + 1
    /\ UNCHANGED <<memory, gfx_memory, keys>>

\* A step that runs to its end: the instruction's effect on the program
\* counter, the registers and the index register, then the timers.
Complete(op, d, pc2, regs2, idx2) ==
    /\ opcode' = op
    /\ decoded' = d
    /\ pre' = Snapshot
    /\ program_counter' = pc2
    /\ registers' = regs2
    /\ index_register' = idx2
    /\ delay_timer' = Decrement(delay_timer)
    /\ sound_timer' = Decrement(sound_timer)
    /\ outcome' = "completed"
    /\ steps' = steps + 1
    /\ fetches' = Append(fetches, [at |-> program_counter, word |-> op])
    /\ UNCHANGED <<memory, gfx_memory, stack, stack_pointer, keys>>

\* A step that panics after the fetch: the program counter is already
\* advanced, and the timers are not reached.
Panic(op, d, message) ==
    /\ opcode' = op
    /\ decoded' = d
    /\ pre' = Snapshot
    /\ program_counter' = Advanced
    /\ outcome' = message
    /\ steps' = steps + 1
    /\ fetches' = Append(fetches, [at |-> program_counter, word |-> op])
    /\ UNCHANGED <<memory, registers, index_register, gfx_memory, delay_timer,
                   sound_timer, stack, stack_pointer, keys>>

OutOfRange == "Register index out of range"

\* The part every step shares: the run has not panicked and the fetch
\* succeeds.
Fetches == Running /\ steps < MaxSteps /\ FetchInBounds

\* The arm of the match for each variant: its register operands are range
\* checked, then its effect is applied.
Arm(op, d, operands, pc2, regs2, idx2) ==
    IF \E r \in operands : r > 15
    THEN Panic(op, d, OutOfRange)
    ELSE Complete(op, d, pc2, regs2, idx2)

StepJump ==
    /\ Fetches
    /\ LET op == FetchedOpcode
           d == decode_opcode(op)
       IN
       /\ d.op = "Jump"
       /\ Arm(op, d, {}, JumpTarget(Advanced, d.address), registers,
              index_register)

StepSkipIfEqual ==
    /\ Fetches
    /\ LET op == FetchedOpcode
           d == decode_opcode(op)
       IN
       /\ d.op = "SkipIfEqual"
       /\ Arm(op, d, {d.register},
              SkipIf(registers[d.register] = d.value, Advanced),
              registers, index_register)

StepSkipIfNotEqual ==
    /\ Fetches
    /\ LET op == FetchedOpcode
           d == decode_opcode(op)
       IN
       /\ d.op = "SkipIfNotEqual"
       /\ Arm(op, d, {d.register},
              SkipIf(registers[d.register] # d.value, Advanced),
              registers, index_register)

StepSkipIfRegistersEqual ==
    /\ Fetches
    /\ LET op == FetchedOpcode
           d == decode_opcode(op)
       IN
       /\ d.op = "SkipIfRegistersEqual"
       /\ Arm(op, d, {d.register1, d.register2},
              SkipIf(registers[d.register1] = registers[d.register2],
                     Advanced),
              registers, index_register)

\* A SetRegister that adds its immediate to the register, as AddConstant.
StepSetRegister_AddsValue ==
    /\ Running /\ steps < MaxSteps /\ FetchInBounds
    /\ LET op == FetchedOpcode
           d == decode_opcode(op)
       IN
       /\ d.op = "SetRegister"
       /\ Complete(op, d, program_counter + 2,
                   [registers EXCEPT
                      ![d.register] = (registers[d.register] + d.value) % U8],
                   index_register)

StepSetRegister ==
    /\ Fetches
    /\ LET op == FetchedOpcode
           d == decode_opcode(op)
       IN
       /\ d.op = "SetRegister"
       /\ Arm(op, d, {d.register}, Advanced,
              [registers EXCEPT ![d.register] = d.value], index_register)

StepAddConstant ==
    /\ Fetches
    /\ LET op == FetchedOpcode
           d == decode_opcode(op)
       IN
       /\ d.op = "AddConstant"
       /\ Arm(op, d, {d.register}, Advanced,
              [registers EXCEPT
                 ![d.register] = wrapping_add(registers[d.register], d.value)],
              index_register)

StepCopyRegister ==
    /\ Fetches
    /\ LET op == FetchedOpcode
           d == decode_opcode(op)
       IN
       /\ d.op = "CopyRegister"
       /\ Arm(op, d, {d.target, d.source}, Advanced,
              [registers EXCEPT ![d.target] = registers[d.source]],
              index_register)

StepBitOr ==
    /\ Fetches
    /\ LET op == FetchedOpcode
           d == decode_opcode(op)
       IN
       /\ d.op = "BitOr"
       /\ Arm(op, d, {d.target, d.other}, Advanced,
              [registers EXCEPT
                 ![d.target] = bor(registers[d.target], registers[d.other])],
              index_register)

StepBitAnd ==
    /\ Fetches
    /\ LET op == FetchedOpcode
           d == decode_opcode(op)
       IN
       /\ d.op = "BitAnd"
       /\ Arm(op, d, {d.target, d.other}, Advanced,
              [registers EXCEPT
                 ![d.target] = band(registers[d.target], registers[d.other])],
              index_register)

StepBitXor ==
    /\ Fetches
    /\ LET op == FetchedOpcode
           d == decode_opcode(op)
       IN
       /\ d.op = "BitXor"
       /\ Arm(op, d, {d.target, d.other}, Advanced,
              [registers EXCEPT
                 ![d.target] = bxor(registers[d.target], registers[d.other])],
              index_register)

StepAddRegister ==
    /\ Fetches
    /\ LET op == FetchedOpcode
           d == decode_opcode(op)
       IN
       /\ d.op = "AddRegister"
       /\ Arm(op, d, {d.target, d.other}, Advanced,
              AddRegisterExec(registers, d.target, d.other), index_register)

StepSubtractRegister ==
    /\ Fetches
    /\ LET op == FetchedOpcode
           d == decode_opcode(op)
       IN
       /\ d.op = "SubtractRegister"
       /\ Arm(op, d, {d.target, d.other}, Advanced,
              SubtractRegisterExec(registers, d.target, d.other),
              index_register)

StepSetIndexRegister ==
    /\ Fetches
    /\ LET op == FetchedOpcode
           d == decode_opcode(op)
       IN
       /\ d.op = "SetIndexRegister"
       /\ Arm(op, d, {}, Advanced, registers, d.value)

\* The variants the match gives an arm of their own.
Implemented ==
    {"Jump", "SkipIfEqual", "SkipIfNotEqual", "SkipIfRegistersEqual",
     "SetRegister", "AddConstant", "CopyRegister", "BitOr", "BitAnd",
     "BitXor", "AddRegister", "SubtractRegister", "SetIndexRegister"}

Unimplemented == "unimplemented opcode"

\* Every other decoded variant falls to the catch-all arm, which panics.
StepUnimplemented ==
    /\ Fetches
    /\ LET op == FetchedOpcode
           d == decode_opcode(op)
       IN
       /\ d # None
       /\ d.op \notin Implemented
       /\ Panic(op, d, Unimplemented)

\* A strict policy: a word that decodes to None ends the run.
StepNone_Panics ==
    /\ Fetches
    /\ LET op == FetchedOpcode
           d == decode_opcode(op)
       IN
       /\ d = None
       /\ Panic(op, d, Unimplemented)

\* A word that decodes to None is not dispatched at all.
StepNone ==
    /\ Fetches
    /\ LET op == FetchedOpcode
           d == decode_opcode(op)
       IN
       /\ d = None
       /\ Complete(op, d, Advanced, registers, index_register)

IndexOutOfBounds == "index out of bounds"

\* A fetch that advances the program counter before it indexes memory.
StepFetchOutOfBounds_AfterAdvance ==
    /\ Running
    /\ steps < MaxSteps
    /\ ~FetchInBounds
    /\ pre' = Snapshot
    /\ decoded' = Pending
    /\ outcome' = "index out of bounds"
    /\ steps' = steps + 1
    /\ program_counter' = program_counter + 2
    /\ UNCHANGED <<memory, registers, index_register, gfx_memory, delay_timer,
                   sound_timer, stack, stack_pointer, keys, opcode, fetches>>

\* The fetch indexes memory outside its MEM_SIZE bytes: the panic comes
\* before anything is written.
StepFetchOutOfBounds ==
    /\ Running
    /\ steps < MaxSteps
    /\ ~FetchInBounds
    /\ pre' = Snapshot
    /\ decoded' = Pending
    /\ outcome' = IndexOutOfBounds
    /\ steps' = steps + 1
    /\ UNCHANGED <<machine, opcode, fetches>>

Next ==
    \/ StepJump
    \/ StepSkipIfEqual
    \/ StepSkipIfNotEqual
    \/ StepSkipIfRegistersEqual
    \/ StepSetRegister
    \/ StepAddConstant
    \/ StepCopyRegister
    \/ StepBitOr
    \/ StepBitAnd
    \/ StepBitXor
    \/ StepAddRegister
    \/ StepSubtractRegister
    \/ StepSetIndexRegister
    \/ StepUnimplemented
    \/ StepNone
    \/ StepFetchOutOfBounds

Spec == Init /\ [][Next]_vars

(***************************************************************************)
(* The decoder by itself: decode_opcode applied to every 16-bit word.      *)
(***************************************************************************)
InitDecode ==
    /\ memory = new.memory
    /\ registers = new.registers
    /\ index_register = new.index_register
    /\ program_counter = new.program_counter
    /\ gfx_memory = new.gfx_memory
    /\ delay_timer = new.delay_timer
    /\ sound_timer = new.sound_timer
    /\ stack = new.stack
    /\ stack_pointer = new.stack_pointer
    /\ keys = new.keys
    /\ outcome = "new"
    /\ opcode \in 0..(U16 - 1)
    /\ decoded = Pending
    /\ pre = Snapshot
    /\ steps = 0
    /\ fetches = <<>>

Decode ==
    /\ decoded = Pending
    /\ decoded' = decode_opcode(opcode)
    /\ UNCHANGED <<machine, outcome, opcode, pre, steps, fetches>>

NextDecode == Decode

SpecDecode == InitDecode /\ [][NextDecode]_vars

(***************************************************************************)
(* The machine stepped over every 16-bit word: a fresh machine with the    *)
(* word loaded at address 0, as the repository's execution tests set it up.*)
(***************************************************************************)
InitAnyWord ==
    /\ \E w \in 0..(U16 - 1) : memory = LoadWord(new.memory, 0, w)
    /\ registers = new.registers
    /\ index_register = new.index_register
    /\ program_counter = new.program_counter
    /\ gfx_memory = new.gfx_memory
    /\ delay_timer = new.delay_timer
    /\ sound_timer = new.sound_timer
    /\ stack = new.stack
    /\ stack_pointer = new.stack_pointer
    /\ keys = new.keys
    /\ outcome = "new"
    /\ opcode = 0
    /\ decoded = Pending
    /\ pre = Snapshot
    /\ steps = 0
    /\ fetches = <<>>

SpecAnyWord == InitAnyWord /\ [][Next]_vars

(***************************************************************************)
(* The fields of an instruction word, read off arithmetically, and the     *)
(* mask table of the documentation, for stating the properties.            *)
(***************************************************************************)
WordHi(w) == w \div 4096
WordX(w) == (w \div 256) % 16
WordY(w) == (w \div 16) % 16
WordN(w) == w % 16
WordNN(w) == w % 256
WordNNN(w) == w % 4096

\* The last step fetched the word in opcode (it did not fail in the fetch).
Fetched == outcome \in {"completed", Unimplemented, OutOfRange}
\* The last step fetched the word and ran to its end.
Executed == outcome = "completed"

Is8(k) == WordHi(opcode) = 8 /\ WordN(opcode) = k

AluNames ==
    <<"CopyRegister", "BitOr", "BitAnd", "BitXor", "AddRegister",
      "SubtractRegister", "RightShift", "AltSubtractRegister", "LeftShift">>

MiscLowBytes == {\h07, \h0A, \h15, \h18, \h1E, \h29, \h33, \h55, \h65}

\* The words of the families 0, 8, E and F that the mask table lists.
ListedIn08EF(w) ==
    \/ w = \h00E0
    \/ w = \h00EE
    \/ WordHi(w) = 8 /\ WordN(w) \in 0..8
    \/ WordHi(w) = 14 /\ WordNN(w) \in {\h9E, \hA1}
    \/ WordHi(w) = 15 /\ WordNN(w) \in MiscLowBytes

\* The words matching a row of the mask table.
MatchesRow(w) ==
    \/ ListedIn08EF(w)
    \/ WordHi(w) \in {1, 2, 3, 4, 6, 7, 10, 11, 12, 13}
    \/ WordHi(w) \in {5, 9} /\ WordN(w) = 0

\* The instruction and operands the mask table gives for a matching word.
RowInstruction(w) ==
    LET X == WordX(w)
        Y == WordY(w)
        hi == WordHi(w)
        nn == WordNN(w)
    IN
    IF w = \h00E0 THEN [op |-> "ClearDisplay"]
    ELSE IF w = \h00EE THEN [op |-> "Return"]
    ELSE IF hi = 1 THEN [op |-> "Jump", address |-> WordNNN(w)]
    ELSE IF hi = 2 THEN [op |-> "Call", address |-> WordNNN(w)]
    ELSE IF hi = 3 THEN [op |-> "SkipIfEqual", register |-> X, value |-> nn]
    ELSE IF hi = 4 THEN [op |-> "SkipIfNotEqual", register |-> X, value |-> nn]
    ELSE IF hi = 5 THEN
        [op |-> "SkipIfRegistersEqual", register1 |-> X, register2 |-> Y]
    ELSE IF hi = 6 THEN [op |-> "SetRegister", register |-> X, value |-> nn]
    ELSE IF hi = 7 THEN [op |-> "AddConstant", register |-> X, value |-> nn]
    ELSE IF hi = 8 /\ WordN(w) \in {0, 6, 8} THEN
        [op |-> AluNames[WordN(w) + 1], target |-> X, source |-> Y]
    ELSE IF hi = 8 THEN
        [op |-> AluNames[WordN(w) + 1], target |-> X, other |-> Y]
    ELSE IF hi = 9 THEN
        [op |-> "SkipIfRegistersNotEqual", register1 |-> X, register2 |-> Y]
    ELSE IF hi = 10 THEN [op |-> "SetIndexRegister", value |-> WordNNN(w)]
    ELSE IF hi = 11 THEN [op |-> "OffsetJump", address |-> WordNNN(w)]
    ELSE IF hi = 12 THEN [op |-> "Rand", mask |-> nn, register |-> X]
    ELSE IF hi = 13 THEN [op |-> "Display", x |-> X, y |-> Y,
                          height |-> WordN(w)]
    ELSE IF hi = 14 /\ nn = \h9E THEN [op |-> "SkipIfKeyPressed", key |-> X]
    ELSE IF hi = 14 THEN [op |-> "SkipIfKeyNotPressed", key |-> X]
    ELSE IF nn = \h07 THEN [op |-> "GetDelayTimer", register |-> X]
    ELSE IF nn = \h0A THEN [op |-> "AwaitKeypress", register |-> X]
    ELSE IF nn = \h15 THEN [op |-> "SetDelayTimer", value |-> X]
    ELSE IF nn = \h18 THEN [op |-> "SetSoundTimer", value |-> X]
    ELSE IF nn = \h1E THEN [op |-> "IncrementIndexRegister", register |-> X]
    ELSE IF nn = \h29 THEN [op |-> "SetIndexToFont", register |-> X]
    ELSE IF nn = \h33 THEN [op |-> "StoreDecimal", register |-> X]
    ELSE IF nn = \h55 THEN [op |-> "MemDump", max_register |-> X]
    ELSE [op |-> "MemLoad", max_register |-> X]

(***************************************************************************)
(* The properties.                                                         *)
(***************************************************************************)

\* C1: after a step executes SubtractRegister (0x8XY5), VF is 1 if the
\* pre-step value of VX is >= the pre-step value of VY (no borrow) and 0 if
\* VX < VY (borrow).  The code sets the flag the other way round.
C1_SubtractFlagIsNoBorrow ==
    (Executed /\ Is8(5)) =>
        registers[15] =
            (IF pre.registers[WordX(opcode)] >= pre.registers[WordY(opcode)]
             THEN 1 ELSE 0)

\* C2: every word with high nibble 5 or 9 and a nonzero low nibble decodes
\* to None.  The code masks these two families with 0xF000 only.
C2_SkipRegistersNeedLowNibbleZero ==
    (decoded # Pending /\ WordHi(opcode) \in {5, 9} /\ WordN(opcode) # 0) =>
        decoded = None

C4_DecodeRecoversOperands ==
    (decoded # Pending /\ MatchesRow(opcode)) =>
        decoded = RowInstruction(opcode)

C4_Witness ==
    /\ opcode = \h8A37
    /\ decoded = [op |-> "AltSubtractRegister", target |-> 10, other |-> 3]

\* C5: after a step executes AddRegister (0x8XY4), VF is 1 if the unsigned
\* sum of the pre-step VX and VY exceeds 255 and 0 otherwise, and for
\* X # 0xF the new VX is the sum mod 256.
C5_AddRegisterCarryAndSum ==
    (Executed /\ Is8(4)) =>
        LET X == WordX(opcode)
            sum == pre.registers[X] + pre.registers[WordY(opcode)]
        IN
        /\ registers[15] = (IF sum > 255 THEN 1 ELSE 0)
        /\ (X # 15 => registers[X] = sum % 256)

C5_Witness ==
    /\ Executed
    /\ Is8(4)
    /\ WordX(opcode) # 15
    /\ pre.registers[WordX(opcode)] + pre.registers[WordY(opcode)] > 255
    /\ registers[15] = 1

\* C6: after a step executes SubtractRegister (0x8XY5) with X # 0xF, the
\* new VX is (pre-step VX - pre-step VY) mod 256, wrapping on borrow.
C6_SubtractRegisterResultWraps ==
    (Executed /\ Is8(5) /\ WordX(opcode) # 15) =>
        LET X == WordX(opcode)
            diff == pre.registers[X] - pre.registers[WordY(opcode)]
        IN registers[X] = (diff + 256) % 256

C6_Witness ==
    /\ Executed
    /\ Is8(5)
    /\ WordX(opcode) # 15
    /\ pre.registers[WordX(opcode)] = \h13
    /\ pre.registers[WordY(opcode)] = \hC4
    /\ registers[WordX(opcode)] = \h4F

\* C7: a SkipIfEqual (0x3XNN), SkipIfNotEqual (0x4XNN) or
\* SkipIfRegistersEqual (0x5XY0) fetched at address A leaves the program
\* counter at A + 4 when its condition holds and at A + 2 when it does
\* not, and changes no register.
SkipCondition ==
    LET VX == pre.registers[WordX(opcode)]
    IN
    IF WordHi(opcode) = 3 THEN VX = WordNN(opcode)
    ELSE IF WordHi(opcode) = 4 THEN VX # WordNN(opcode)
    ELSE VX = pre.registers[WordY(opcode)]

IsConditionalSkip ==
    \/ WordHi(opcode) \in {3, 4}
    \/ WordHi(opcode) = 5 /\ WordN(opcode) = 0

C7_ConditionalSkips ==
    (Executed /\ IsConditionalSkip) =>
        /\ program_counter =
              pre.program_counter + (IF SkipCondition THEN 4 ELSE 2)
        /\ registers = pre.registers

C7_Witness ==
    /\ Executed
    /\ WordHi(opcode) = 4
    /\ SkipCondition
    /\ pre.program_counter = MEM_SIZE - 4
    /\ program_counter = MEM_SIZE

\* C8: after a step executes Jump (0x1NNN) from any address, the program
\* counter is exactly NNN: the advance by 2 is overwritten, not added.
C8_JumpSetsProgramCounter ==
    (Executed /\ WordHi(opcode) = 1) => program_counter = WordNNN(opcode)

C8_Witness ==
    /\ Executed
    /\ WordHi(opcode) = 1
    /\ pre.program_counter = MEM_SIZE - 4
    /\ program_counter = \h9DE

\* C9: a step over Call (0x2NNN) fetched at address A pushes A + 2 onto the
\* stack, increases stack_pointer by one and sets the program counter to
\* NNN (and a later Return pops that address).  The code has no arm for
\* Call or Return: the step panics.
C9_CallPushesReturnAddress ==
    (Fetched /\ WordHi(opcode) = 2) =>
        /\ Executed
        /\ stack_pointer = pre.stack_pointer + 1
        /\ stack[pre.stack_pointer] = pre.program_counter + 2
        /\ program_counter = WordNNN(opcode)

\* C10: when a step fetches AwaitKeypress (0xFX0A) and no key is down, the
\* machine is left awaiting a key with the program counter not advanced
\* past the instruction.  The code has no arm for AwaitKeypress: the step
\* panics, with the program counter already advanced.
C10_AwaitKeypressSuspends ==
    (Fetched /\ WordHi(opcode) = 15 /\ WordNN(opcode) = \h0A /\ keys = {}) =>
        /\ outcome # Unimplemented
        /\ program_counter = pre.program_counter

\* C11: every word the decoder maps to an instruction is executed by the
\* step that fetches it: the step completes, and never fails as an
\* unimplemented instruction.  The match has arms for 13 of the 35 variants
\* only; every other variant panics.
C11_EveryDecodedInstructionExecutes ==
    (Fetched /\ decoded # None) => Executed

\* C12: a step that fetches a word decoding to None is a no-op that
\* continues: it is not fatal, advances the program counter by exactly 2 and
\* changes no register, index register, memory byte, stack entry, stack
\* pointer, key or pixel.
C12_DecodeFailureIsNoOp ==
    (Fetched /\ decoded = None) =>
        /\ Executed
        /\ program_counter = pre.program_counter + 2
        /\ registers = pre.registers
        /\ index_register = pre.index_register
        /\ memory = pre.memory
        /\ stack = pre.stack
        /\ stack_pointer = pre.stack_pointer
        /\ keys = pre.keys
        /\ gfx_memory = pre.gfx_memory

C12_Witness ==
    /\ Executed
    /\ decoded = None
    /\ opcode = \h0123
    /\ pre.registers[15] = \h5A
    /\ program_counter = pre.program_counter + 2

\* C13: every step that completes leaves each of the two timers at
\* max(previous value - 1, 0), each independently of the other: a nonzero
\* timer loses exactly one, a zero timer stays at zero.
TimerAfter(t) == IF t = 0 THEN 0 ELSE t - 1

C13_TimersDecrementToZero ==
    Executed =>
        /\ delay_timer = TimerAfter(pre.delay_timer)
        /\ sound_timer = TimerAfter(pre.sound_timer)

C13_Witness ==
    /\ Executed
    /\ pre.delay_timer = 1
    /\ delay_timer = 0
    /\ pre.sound_timer = 0
    /\ sound_timer = 0

\* C14: the step operation by itself does not change delay_timer or
\* sound_timer; they are decremented only by a separate tick operation.
\* The code decrements both at the end of every step and has no tick.
C14_StepLeavesTimersAlone ==
    Executed =>
        /\ delay_timer = pre.delay_timer
        /\ sound_timer = pre.sound_timer

\* C15 as stated: in every state reachable by steps from a machine whose
\* program counter is at most 0xFFE, the program counter references two
\* valid consecutive addresses at the moment of the next fetch.
C15_ProgramCounterAlwaysFetchable ==
    Running => program_counter + 1 <= MEM_SIZE - 1

\* C15 as amended: the program counter can leave memory (a step at 0xFFE
\* or a taken skip at 0xFFC gives 0x1000, Jump 0xFFF gives 0xFFF), but
\* every word a step fetches lies at two valid consecutive addresses, and a
\* step ends in the out-of-bounds fatal condition exactly when it is
\* entered with program_counter + 1 beyond 0xFFF.
C15_EveryFetchInBounds ==
    /\ \A i \in DOMAIN fetches : fetches[i].at + 1 <= MEM_SIZE - 1
    /\ (outcome = IndexOutOfBounds) <=>
          (steps > 0 /\ pre.program_counter + 1 > MEM_SIZE - 1)

C15_Witness ==
    /\ outcome = IndexOutOfBounds
    /\ pre.program_counter = MEM_SIZE - 1
    /\ Len(fetches) = 1
    /\ WordHi(fetches[1].word) = 1

\* C16: a step invoked when program_counter or program_counter + 1 lies
\* outside memory ends in a fatal condition before any machine state is
\* mutated: the program counter, the registers, the index register and
\* both timers keep their pre-step values.
C16_FetchOutOfBoundsIsFatalAndClean ==
    (steps > 0 /\ pre.program_counter + 1 >= MEM_SIZE) =>
        /\ outcome = IndexOutOfBounds
        /\ program_counter = pre.program_counter
        /\ registers = pre.registers
        /\ index_register = pre.index_register
        /\ delay_timer = pre.delay_timer
        /\ sound_timer = pre.sound_timer

C16_Witness ==
    /\ outcome = IndexOutOfBounds
    /\ program_counter = MEM_SIZE
    /\ pre.program_counter = MEM_SIZE
    /\ delay_timer = 29
    /\ sound_timer = 18

\* C17: after a step executes AddConstant (0x7XNN), VX is
\* (pre-step VX + NN) mod 256: the addition wraps, 0xFF + 0x01 gives 0x00.
C17_AddConstantWraps ==
    (Executed /\ WordHi(opcode) = 7) =>
        registers[WordX(opcode)] =
            (pre.registers[WordX(opcode)] + WordNN(opcode)) % 256

C17_Witness ==
    /\ Executed
    /\ WordHi(opcode) = 7
    /\ pre.registers[WordX(opcode)] = \hFF
    /\ WordNN(opcode) = \h01
    /\ registers[WordX(opcode)] = \h00

\* C18: starting at address A, k consecutive steps over instructions that
\* are neither control transfers nor skips (SetRegister, AddConstant,
\* CopyRegister, BitOr, BitAnd, BitXor, AddRegister, SubtractRegister,
\* SetIndexRegister) leave the program counter at A + 2k, step i having
\* executed the word at A + 2i; memory [0x60,0xFF,0x70,0x01] at program
\* counter 0 gives registers[0] = 0x00 and program counter 4 after two
\* steps.
NonControl(w) ==
    \/ WordHi(w) \in {6, 7, 10}
    \/ WordHi(w) = 8 /\ WordN(w) \in 0..5

WordInMemoryAt(a) == (ReadMemory(memory, a) * 256) + ReadMemory(memory, a + 1)

C18_StraightLineAdvancesByTwo ==
    /\ (Executed /\ \A i \in DOMAIN fetches : NonControl(fetches[i].word)) =>
          LET A == fetches[1].at
              k == Len(fetches)
          IN
          /\ program_counter = A + (2 * k)
          /\ \A i \in 1..k :
                /\ fetches[i].at = A + (2 * (i - 1))
                /\ fetches[i].word = WordInMemoryAt(A + (2 * (i - 1)))
    /\ (Executed /\ fetches = <<[at |-> 0, word |-> \h60FF],
                               [at |-> 2, word |-> \h7001]>>) =>
          /\ registers[0] = \h00
          /\ program_counter = 4

C18_Witness ==
    /\ Executed
    /\ fetches = <<[at |-> 0, word |-> \h60FF], [at |-> 2, word |-> \h7001]>>
    /\ registers[0] = \h00
    /\ program_counter = 4

\* C19: after a step executes CopyRegister, BitOr, BitAnd or BitXor
\* (0x8XY0..0x8XY3), VX is VY, VX | VY, VX & VY, VX ^ VY of the pre-step
\* values, and every other register, VF included when X # 0xF, is
\* unchanged.
BitsOf(n) == {i \in 0..7 : (n \div (2 ^ i)) % 2 = 1}

RECURSIVE ByteOfBits(_, _)
ByteOfBits(S, i) ==
    IF i > 7 THEN 0
    ELSE (IF i \in S THEN 2 ^ i ELSE 0) + ByteOfBits(S, i + 1)

LogicResult(k, vx, vy) ==
    IF k = 0 THEN vy
    ELSE IF k = 1 THEN ByteOfBits(BitsOf(vx) \cup BitsOf(vy), 0)
    ELSE IF k = 2 THEN ByteOfBits(BitsOf(vx) \cap BitsOf(vy), 0)
    ELSE ByteOfBits((BitsOf(vx) \cup BitsOf(vy))
                        \ (BitsOf(vx) \cap BitsOf(vy)), 0)

C19_CopyAndLogicOps ==
    (Executed /\ WordHi(opcode) = 8 /\ WordN(opcode) \in 0..3) =>
        LET X == WordX(opcode)
        IN
        /\ registers[X] = LogicResult(WordN(opcode), pre.registers[X],
                                      pre.registers[WordY(opcode)])
        /\ \A r \in 0..(NumRegisters - 1) :
              r # X => registers[r] = pre.registers[r]

C19_Witness ==
    /\ Executed
    /\ Is8(3)
    /\ WordX(opcode) = 0
    /\ pre.registers[0] = \h13
    /\ pre.registers[WordY(opcode)] = \hC4
    /\ registers[0] = \hD7
    /\ registers[15] = \hC4

\* C20: after a step executes SetRegister (0x6XNN), VX is NN and every
\* other register and the index register are unchanged; after a step
\* executes SetIndexRegister (0xANNN), the index register is NNN and all
\* registers are unchanged.
C20_LoadImmediates ==
    /\ (Executed /\ WordHi(opcode) = 6) =>
          /\ registers[WordX(opcode)] = WordNN(opcode)
          /\ \A r \in 0..(NumRegisters - 1) :
                r # WordX(opcode) => registers[r] = pre.registers[r]
          /\ index_register = pre.index_register
    /\ (Executed /\ WordHi(opcode) = 10) =>
          /\ index_register = WordNNN(opcode)
          /\ registers = pre.registers

C20_Witness ==
    /\ Executed
    /\ WordHi(opcode) = 6
    /\ WordNN(opcode) = \hC4
    /\ pre.registers[WordX(opcode)] = \h13
    /\ registers[WordX(opcode)] = \hC4
    /\ registers[15] = \h5A

\* The register-index operands of a decoded instruction: every field that
\* the execution engine uses, or would use, to index the register file.
RegisterOperands(d) ==
    IF d.op \in {"SkipIfEqual", "SkipIfNotEqual", "SetRegister", "AddConstant",
                 "Rand", "GetDelayTimer", "AwaitKeypress",
                 "IncrementIndexRegister", "SetIndexToFont", "StoreDecimal"}
    THEN {d.register}
    ELSE IF d.op \in {"SkipIfRegistersEqual", "SkipIfRegistersNotEqual"}
    THEN {d.register1, d.register2}
    ELSE IF d.op \in {"CopyRegister", "RightShift", "LeftShift"}
    THEN {d.target, d.source}
    ELSE IF d.op \in {"BitOr", "BitAnd", "BitXor", "AddRegister",
                      "SubtractRegister", "AltSubtractRegister"}
    THEN {d.target, d.other}
    ELSE IF d.op = "Display"
    THEN {d.x, d.y}
    ELSE IF d.op \in {"SkipIfKeyPressed", "SkipIfKeyNotPressed"}
    THEN {d.key}
    ELSE IF d.op \in {"SetDelayTimer", "SetSoundTimer"}
    THEN {d.value}
    ELSE IF d.op \in {"MemDump", "MemLoad"}
    THEN {d.max_register}
    ELSE {}

\* C21: for every 16-bit word, every register-index operand that
\* decode_opcode produces lies in 0..15, and no step from any word in memory
\* ends in the "Register index out of range" panic.
C21_RegisterIndexInRange ==
    /\ Fetched => RegisterOperands(decoded) \subseteq 0..(NumRegisters - 1)
    /\ outcome # OutOfRange

C21_Witness ==
    /\ Executed
    /\ opcode = \h8FF4
    /\ decoded.op = "AddRegister"
    /\ decoded.target = 15
    /\ decoded.other = 15

\* C22: in every state reached by steps, memory, the keys, the framebuffer,
\* the stack and stack_pointer are what they were before the step that led
\* to the state, hence what they were before the first step: the
\* framebuffer, keys, stack and stack_pointer are still those of a new
\* machine, and stack_pointer lies in 0..16.
C22_StepWritesOnlyRegistersCountersTimers ==
    /\ memory = pre.memory
    /\ keys = pre.keys
    /\ gfx_memory = pre.gfx_memory
    /\ stack = pre.stack
    /\ stack_pointer = pre.stack_pointer
    /\ keys = new.keys
    /\ gfx_memory = new.gfx_memory
    /\ stack = new.stack
    /\ stack_pointer = new.stack_pointer
    /\ stack_pointer \in 0..StackSize

C22_Witness ==
    /\ Executed
    /\ steps = 2
    /\ \A i \in 1..2 :
          /\ fetches[i].word # 0
          /\ ReadMemory(memory, fetches[i].at) = fetches[i].word \div U8
          /\ ReadMemory(memory, fetches[i].at + 1) = fetches[i].word % U8
    /\ registers # pre.registers
    /\ memory = pre.memory
    /\ stack_pointer = 0
    /\ gfx_memory = {}

\* C23: after a step executes AddRegister (0x8XY4) or SubtractRegister
\* (0x8XY5), VF is 0 or 1; when the target is VF itself (0x8FY4, 0x8FY5) VF
\* holds the flag the instruction writes last (for the addition 1 exactly
\* when the sum of the pre-step VF and VY exceeds 255, for the subtraction
\* 1 exactly when the pre-step VF is less than VY) and not the arithmetic
\* result.
C23_FlagWrittenAfterResult ==
    (Executed /\ (Is8(4) \/ Is8(5))) =>
        LET vx == pre.registers[WordX(opcode)]
            vy == pre.registers[WordY(opcode)]
        IN
        /\ registers[15] \in {0, 1}
        /\ (WordX(opcode) = 15 /\ Is8(4)) =>
              registers[15] = (IF vx + vy > 255 THEN 1 ELSE 0)
        /\ (WordX(opcode) = 15 /\ Is8(5)) =>
              registers[15] = (IF vx < vy THEN 1 ELSE 0)

C23_Witness ==
    /\ Executed
    /\ Is8(5)
    /\ WordX(opcode) = 15
    /\ pre.registers[15] = \h13
    /\ pre.registers[WordY(opcode)] = \hC4
    /\ wrapping_sub(\h13, \hC4) = \h4F
    /\ registers[15] = 1

====
